---- MODULE Spec2Model ----
(***************************************************************************)
(* A model of the two demonstration programs of sdcb/Sdcb.Arithmetic:      *)
(*   .github/workflows/factorial_gmp.c  (calculate_factorial and main)     *)
(*   .github/workflows/pi_mpfr.c        (main)                             *)
(*                                                                         *)
(* Three run contexts are modelled, chosen in Init by `mode`:              *)
(*   "factorial"  main of factorial_gmp.c                                  *)
(*   "pi"         main of pi_mpfr.c                                        *)
(*   "caller"     calculate_factorial called by an arbitrary caller, any   *)
(*                number of times, on one accumulator                      *)
(*                                                                         *)
(* Numbers of the source that TLC cannot enumerate are scaled down: the    *)
(* width of unsigned long (ULONG_WIDTH), main's n = 100000 (MainN), the    *)
(* mpf precision of 1000000 bits (MpfPrec) and the 20 fraction digits of   *)
(* "%.20Fe" (FmtDigits).                                                   *)
(***************************************************************************)
EXTENDS Integers, Sequences, FiniteSets, TLC

\* ------------------------------------------------------------- bounds

\* width of `unsigned long` (64 on LP64), scaled down
ULONG_WIDTH == 3

\* main's `unsigned long n = 100000`, scaled down
MainN == 5

\* the precision given to mpf_init2 (1000000 bits), scaled down
MpfPrec == 3

\* the fraction digits of "%.20Fe", scaled down
FmtDigits == 1

\* the largest value clock() returns in the model
MaxClock == 2

\* the largest value an arbitrary caller stores in the accumulator before a call
MaxPrior == 2

\* the number of rounds of main's loop: `i < 5`
ROUNDS == 5

\* <time.h>: the value POSIX requires of CLOCKS_PER_SEC
CLOCKS_PER_SEC == 1000000

\* ------------------------------------------------------------ helpers

RECURSIVE Pow(_, _)
Pow(b, e) == IF e = 0 THEN 1 ELSE b * Pow(b, e - 1)

\* unsigned long arithmetic is modulo 2^ULONG_WIDTH
Modulus == Pow(2, ULONG_WIDTH)

ULONG_MAX == Modulus - 1

\* conversion of a signed argument to the `unsigned long` parameter
ToUlong(a) == a % Modulus

\* the reference factorial 1*2*...*k
RECURSIVE Factorial(_)
Factorial(k) == IF k <= 0 THEN 1 ELSE k * Factorial(k - 1)

\* the sequence <<1, 2, ..., k>>
UpTo(k) == [j \in 1..k |-> j]

\* number of binary digits of z >= 0 (0 for z = 0)
RECURSIVE BitLen(_)
BitLen(z) == IF z = 0 THEN 0 ELSE 1 + BitLen(z \div 2)

\* number of decimal digits of v >= 0 (1 for v = 0)
RECURSIVE DecLen(_)
DecLen(v) == IF v < 10 THEN 1 ELSE 1 + DecLen(v \div 10)

\* mpf_set_z into an mpf of prec bits: the low bits beyond the precision are dropped
MpfSetZ(z, prec) ==
    LET k == BitLen(z) - prec
    IN  IF k <= 0 THEN z ELSE (z \div Pow(2, k)) * Pow(2, k)

\* "%.<d>Fe": d+1 significant decimal digits, rounded, and a decimal exponent
FormatFe(v, d) ==
    LET len == DecLen(v)
        k   == len - (d + 1)
    IN  IF k <= 0
        THEN [mant |-> v * Pow(10, -k), exp |-> len - 1]
        ELSE LET q == (v + 5 * Pow(10, k - 1)) \div Pow(10, k)
             IN  IF q = Pow(10, d + 1)
                 THEN [mant |-> q \div 10, exp |-> len]
                 ELSE [mant |-> q, exp |-> len - 1]

\* the number a formatted value denotes (for exp >= d)
FeValue(f, d) == f.mant * Pow(10, f.exp - d)

\* ------------------------------------------------------------- state

VARIABLES
    mode,           \* which run context: "factorial", "pi", "caller"
    pc,             \* position of main (or "caller"), "exit", "aborted"
    fpc,            \* position inside calculate_factorial
    arg,            \* the (signed) argument expression of the call
    n,              \* calculate_factorial's parameter / main's n
    i,              \* calculate_factorial's loop counter
    result,         \* value of the mpz_t accumulator
    fresult,        \* value of the mpf_t fresult
    pi,             \* value of the mpfr_t pi of pi_mpfr.c
    round,          \* main's loop variable `int i`
    clock,          \* processor time: the last value clock() returned
    start,          \* main's start
    end,            \* main's end
    cpu_time_used,  \* main's cpu_time_used, as a fraction num/den
    out,            \* what has been written to standard output
    st,             \* lifecycle of each big number: "uninit", "live", "cleared"
    clears,         \* history: how often each big number was cleared
    misuse,         \* history: big numbers used while not live
    prior,          \* history: accumulator value when the current call began
    mults,          \* history: multipliers applied in the current call
    returned,       \* history: per n, the values calls with that n returned
    allocFailed,    \* history: an allocation has failed
    log             \* history: main's timing events, in order

vars == <<mode, pc, fpc, arg, n, i, result, fresult, pi, round, clock, start, end,
          cpu_time_used, out, st, clears, misuse, prior, mults, returned,
          allocFailed, log>>

BigNums == {"result", "fresult", "pi"}

\* a use of big number v: recorded when v is not live
Use(v) == IF st[v] = "live" THEN misuse ELSE misuse \cup {v}

mainVars == <<round, clock, start, end, cpu_time_used, out, fresult, pi, log>>
lifeVars == <<st, clears>>

\* -------------------------------------------------------------- Init

\* factorial_gmp.c main: `unsigned long n = 100000; mpz_t result; mpf_t fresult;`
\* pi_mpfr.c main: `mpfr_t pi;`
\* caller: an accumulator its owner has initialised (mpz_init gives the value 0)
Init ==
    /\ mode \in {"factorial", "pi", "caller"}
    /\ pc = CASE mode = "factorial" -> "mpz_init"
              [] mode = "pi"        -> "mpfr_init2"
              [] OTHER              -> "caller"
    /\ fpc = "idle"
    /\ arg = 0
    /\ n = IF mode = "factorial" THEN MainN ELSE 0
    /\ i = 0
    /\ result = 0
    /\ fresult = 0
    /\ pi = "unset"
    /\ round = 0
    /\ clock = 0
    /\ start = 0
    /\ end = 0
    /\ cpu_time_used = [num |-> 0, den |-> CLOCKS_PER_SEC]
    /\ out = <<>>
    /\ st = [v \in BigNums |-> IF mode = "caller" /\ v = "result" THEN "live" ELSE "uninit"]
    /\ clears = [v \in BigNums |-> 0]
    /\ misuse = {}
    /\ prior = 0
    /\ mults = <<>>
    /\ returned = [m \in 0..ULONG_MAX |-> {}]
    /\ allocFailed = FALSE
    /\ log = <<>>

\* ------------------------------------------------ calculate_factorial

InFunction == pc \in {"in_call", "caller"}

\* the loop stops one multiplier early: `i < n`
LoopCond_OffByOne(ii, nn) == ii < nn

\* line 7: the loop condition `i <= n`
LoopCond(ii, nn) == ii <= nn

\* the accumulator is not reset: the product is appended to what it held
SetUi_Skipped(acc) == acc

\* line 6: the value mpz_set_ui(result, 1) leaves in an accumulator holding acc
SetUi(acc) == 1

\* the multiplier is added instead of multiplied
MulUi_Adds(acc, ii) == acc + ii

\* line 8: the value mpz_mul_ui(result, result, i) leaves in the accumulator
MulUi(acc, ii) == acc * ii

\* line 6: mpz_set_ui(result, 1);
F_SetUi ==
    /\ InFunction /\ fpc = "set"
    /\ result' = SetUi(result)
    /\ misuse' = Use("result")
    /\ fpc' = "init"
    /\ UNCHANGED <<mode, pc, arg, n, i, mainVars, lifeVars, prior, mults, returned, allocFailed>>

\* line 7: for (unsigned long i = 1; ...
F_LoopInit ==
    /\ InFunction /\ fpc = "init"
    /\ i' = 1
    /\ fpc' = "test"
    /\ UNCHANGED <<mode, pc, arg, n, result, mainVars, lifeVars, misuse, prior, mults, returned, allocFailed>>

\* line 7: ... i <= n; ...   and, when the test fails, line 10: the return
F_Test ==
    /\ InFunction /\ fpc = "test"
    /\ IF LoopCond(i, n)
       THEN /\ fpc' = "mul"
            /\ UNCHANGED returned
       ELSE /\ fpc' = "ret"
            /\ returned' = [returned EXCEPT ![n] = @ \cup {result}]
    /\ UNCHANGED <<mode, pc, arg, n, i, result, mainVars, lifeVars, misuse, prior, mults, allocFailed>>

\* line 8: mpz_mul_ui(result, result, i);  the accumulator grows as needed
F_MulUi ==
    /\ InFunction /\ fpc = "mul"
    /\ result' = MulUi(result, i)
    /\ misuse' = Use("result")
    /\ mults' = IF Len(mults) < Modulus THEN Append(mults, i) ELSE mults
    /\ fpc' = "inc"
    /\ UNCHANGED <<mode, pc, arg, n, i, mainVars, lifeVars, prior, returned, allocFailed>>

\* a failed allocation is ignored: the partial product is kept and the loop goes on
F_MulUiAllocFail_Ignored ==
    /\ InFunction /\ fpc = "mul"
    /\ allocFailed' = TRUE
    /\ fpc' = "inc"
    /\ UNCHANGED <<mode, pc, arg, n, i, result, mainVars, lifeVars, misuse, prior, mults, returned>>

\* line 8, when the accumulator cannot grow: GMP's default allocation functions
\* print a message and terminate the program (no mp_set_memory_functions call
\* replaces them); the accumulator keeps the partial product
F_MulUiAllocFail ==
    /\ InFunction /\ fpc = "mul"
    /\ allocFailed' = TRUE
    /\ pc' = "aborted"
    /\ UNCHANGED <<mode, fpc, arg, n, i, result, mainVars, lifeVars, misuse, prior, mults, returned>>

\* line 7: ... ++i)   unsigned long wraps modulo 2^ULONG_WIDTH
F_Inc ==
    /\ InFunction /\ fpc = "inc"
    /\ i' = (i + 1) % Modulus
    /\ fpc' = "test"
    /\ UNCHANGED <<mode, pc, arg, n, result, mainVars, lifeVars, misuse, prior, mults, returned, allocFailed>>

\* ------------------------------------------------------------- caller

\* an arbitrary caller: calculate_factorial(a, acc) on its accumulator, which
\* holds what the last call left or a value v the caller stored
CallerCall ==
    /\ pc = "caller" /\ fpc \in {"idle", "ret"}
    /\ \E a \in (-1)..ULONG_MAX, v \in {result} \cup 0..MaxPrior :
         /\ arg' = a
         /\ n' = ToUlong(a)
         /\ result' = v
         /\ prior' = v
    /\ mults' = <<>>
    /\ fpc' = "set"
    /\ UNCHANGED <<mode, pc, i, mainVars, lifeVars, misuse, returned, allocFailed>>

\* ------------------------------------------- factorial_gmp.c: main

\* the operands of the subtraction are swapped
Elapsed_Swapped(s, e) == s - e

\* line 25: (end - start), the numerator of cpu_time_used
Elapsed(s, e) == e - s

AtMain(l) == mode = "factorial" /\ pc = l

fnVars == <<fpc, arg, n, i, prior, mults, returned>>

\* line 16: mpz_init(result);
M_MpzInit ==
    /\ AtMain("mpz_init")
    /\ st' = [st EXCEPT !["result"] = "live"]
    /\ result' = 0
    /\ pc' = "for_init"
    /\ UNCHANGED <<mode, fnVars, mainVars, clears, misuse, allocFailed>>

\* line 21: for (int i = 0; ...
M_ForInit ==
    /\ AtMain("for_init")
    /\ round' = 0
    /\ pc' = "for_test"
    /\ UNCHANGED <<mode, fnVars, result, clock, start, end, cpu_time_used, out, fresult,
                   pi, log, lifeVars, misuse, allocFailed>>

\* line 21: ... i < 5; ...
M_ForTest ==
    /\ AtMain("for_test")
    /\ pc' = IF round < ROUNDS THEN "start" ELSE "mpf_init2"
    /\ UNCHANGED <<mode, fnVars, result, mainVars, lifeVars, misuse, allocFailed>>

\* line 22: start = clock();   processor time does not decrease
M_Start ==
    /\ AtMain("start")
    /\ \E t \in clock..MaxClock :
         /\ clock' = t
         /\ start' = t
    /\ log' = Append(log, <<"start", round>>)
    /\ pc' = "call"
    /\ UNCHANGED <<mode, fnVars, result, round, end, cpu_time_used, out, fresult, pi,
                   lifeVars, misuse, allocFailed>>

\* line 23: calculate_factorial(n, result);   the call
M_Call ==
    /\ AtMain("call")
    /\ arg' = n
    /\ prior' = result
    /\ mults' = <<>>
    /\ fpc' = "set"
    /\ log' = Append(log, <<"call", round>>)
    /\ pc' = "in_call"
    /\ UNCHANGED <<mode, n, i, returned, result, round, clock, start, end, cpu_time_used,
                   out, fresult, pi, lifeVars, misuse, allocFailed>>

\* line 23: calculate_factorial has returned
M_CallReturn ==
    /\ AtMain("in_call") /\ fpc = "ret"
    /\ fpc' = "idle"
    /\ log' = Append(log, <<"ret", round>>)
    /\ pc' = "end"
    /\ UNCHANGED <<mode, arg, n, i, prior, mults, returned, result, round, clock, start,
                   end, cpu_time_used, out, fresult, pi, lifeVars, misuse, allocFailed>>

\* line 24: end = clock();
M_End ==
    /\ AtMain("end")
    /\ \E t \in clock..MaxClock :
         /\ clock' = t
         /\ end' = t
    /\ log' = Append(log, <<"end", round>>)
    /\ pc' = "elapsed"
    /\ UNCHANGED <<mode, fnVars, result, round, start, cpu_time_used, out, fresult, pi,
                   lifeVars, misuse, allocFailed>>

\* line 25: cpu_time_used = ((double)(end - start)) / CLOCKS_PER_SEC;
M_Elapsed ==
    /\ AtMain("elapsed")
    /\ cpu_time_used' = [num |-> Elapsed(start, end), den |-> CLOCKS_PER_SEC]
    /\ pc' = "printf"
    /\ UNCHANGED <<mode, fnVars, result, round, clock, start, end, out, fresult, pi, log,
                   lifeVars, misuse, allocFailed>>

\* line 26: printf("Round %d time taken to calculate %lu! is %f seconds.\n", ...)
M_Printf ==
    /\ AtMain("printf")
    /\ out' = Append(out, [kind |-> "round", round |-> round, n |-> n,
                           seconds |-> cpu_time_used])
    /\ log' = Append(log, <<"report", round>>)
    /\ pc' = "for_inc"
    /\ UNCHANGED <<mode, fnVars, result, round, clock, start, end, cpu_time_used, fresult,
                   pi, lifeVars, misuse, allocFailed>>

\* line 21: ... i++)
M_ForInc ==
    /\ AtMain("for_inc")
    /\ round' = round + 1
    /\ pc' = "for_test"
    /\ UNCHANGED <<mode, fnVars, result, clock, start, end, cpu_time_used, out, fresult,
                   pi, log, lifeVars, misuse, allocFailed>>

\* line 29: mpf_init2(fresult, 1000000);
M_MpfInit2 ==
    /\ AtMain("mpf_init2")
    /\ st' = [st EXCEPT !["fresult"] = "live"]
    /\ fresult' = 0
    /\ pc' = "mpf_set_z"
    /\ UNCHANGED <<mode, fnVars, result, round, clock, start, end, cpu_time_used, out, pi,
                   log, clears, misuse, allocFailed>>

\* line 29, when the 1000000 bits cannot be allocated: GMP terminates the program
M_MpfInit2AllocFail ==
    /\ AtMain("mpf_init2")
    /\ allocFailed' = TRUE
    /\ pc' = "aborted"
    /\ UNCHANGED <<mode, fnVars, result, mainVars, lifeVars, misuse>>

\* line 30: mpf_set_z(fresult, result);   result is only read
M_MpfSetZ ==
    /\ AtMain("mpf_set_z")
    /\ fresult' = MpfSetZ(result, MpfPrec)
    /\ misuse' = misuse \cup {v \in {"result", "fresult"} : st[v] # "live"}
    /\ pc' = "mpf_printf"
    /\ UNCHANGED <<mode, fnVars, result, round, clock, start, end, cpu_time_used, out, pi,
                   log, lifeVars, allocFailed>>

\* line 31: mpf_printf("The factorial of %lu is %.20Fe\n", n, fresult);
M_MpfPrintf ==
    /\ AtMain("mpf_printf")
    /\ out' = Append(out, [kind |-> "factorial", n |-> n,
                           value |-> FormatFe(fresult, FmtDigits)])
    /\ misuse' = Use("fresult")
    /\ pc' = "mpf_clear"
    /\ UNCHANGED <<mode, fnVars, result, round, clock, start, end, cpu_time_used, fresult,
                   pi, log, lifeVars, allocFailed>>

\* mpz_clear, mpf_clear, mpfr_clear of big number v
Clear(v) ==
    /\ st' = [st EXCEPT ![v] = "cleared"]
    /\ clears' = [clears EXCEPT ![v] = @ + 1]
    /\ misuse' = Use(v)

\* line 33: mpf_clear(fresult);
M_MpfClear ==
    /\ AtMain("mpf_clear")
    /\ Clear("fresult")
    /\ pc' = "mpz_clear"
    /\ UNCHANGED <<mode, fnVars, result, mainVars, allocFailed>>

\* the accumulator is never released
M_MpzClear_Missing ==
    /\ mode = "factorial" /\ pc = "mpz_clear"
    /\ pc' = "return"
    /\ UNCHANGED <<mode, fpc, arg, n, i, prior, mults, returned, result, round, clock,
                   start, end, cpu_time_used, out, fresult, pi, log, st, clears, misuse,
                   allocFailed>>

\* line 34: mpz_clear(result);
M_MpzClear ==
    /\ AtMain("mpz_clear")
    /\ Clear("result")
    /\ pc' = "return"
    /\ UNCHANGED <<mode, fnVars, result, mainVars, allocFailed>>

\* line 35: return 0;
M_Return ==
    /\ AtMain("return")
    /\ pc' = "exit"
    /\ UNCHANGED <<mode, fnVars, result, mainVars, lifeVars, misuse, allocFailed>>

\* ------------------------------------------------- pi_mpfr.c: main

AtPi(l) == mode = "pi" /\ pc = l

piFrame == <<mode, fnVars, result, fresult, round, clock, start, end, cpu_time_used,
             log, allocFailed>>

\* line 6: mpfr_init2(pi, 256);   a fresh mpfr_t holds NaN
P_Init2 ==
    /\ AtPi("mpfr_init2")
    /\ st' = [st EXCEPT !["pi"] = "live"]
    /\ pi' = "nan"
    /\ pc' = "mpfr_const_pi"
    /\ UNCHANGED <<piFrame, out, clears, misuse>>

\* line 8: mpfr_const_pi(pi, MPFR_RNDN);
P_ConstPi ==
    /\ AtPi("mpfr_const_pi")
    /\ pi' = "pi_256_rndn"
    /\ misuse' = Use("pi")
    /\ pc' = "printf_head"
    /\ UNCHANGED <<piFrame, out, lifeVars>>

\* line 10: printf("Pi with 256-bit precision:\n");
P_PrintfHead ==
    /\ AtPi("printf_head")
    /\ out' = Append(out, [kind |-> "text", text |-> "Pi with 256-bit precision:"])
    /\ pc' = "mpfr_out_str"
    /\ UNCHANGED <<piFrame, pi, lifeVars, misuse>>

\* line 11: mpfr_out_str(stdout, 10, 0, pi, MPFR_RNDN);
P_OutStr ==
    /\ AtPi("mpfr_out_str")
    /\ out' = Append(out, [kind |-> "pi", value |-> pi])
    /\ misuse' = Use("pi")
    /\ pc' = "printf_nl"
    /\ UNCHANGED <<piFrame, pi, lifeVars>>

\* line 12: printf("\n");
P_PrintfNl ==
    /\ AtPi("printf_nl")
    /\ out' = Append(out, [kind |-> "text", text |-> "\n"])
    /\ pc' = "mpfr_clear"
    /\ UNCHANGED <<piFrame, pi, lifeVars, misuse>>

\* line 14: mpfr_clear(pi);
P_Clear ==
    /\ AtPi("mpfr_clear")
    /\ Clear("pi")
    /\ pc' = "return"
    /\ UNCHANGED <<piFrame, pi, out>>

\* line 16: return 0;
P_Return ==
    /\ AtPi("return")
    /\ pc' = "exit"
    /\ UNCHANGED <<piFrame, pi, out, lifeVars, misuse>>

\* ------------------------------------------------------ specification

Next ==
    \/ F_SetUi \/ F_LoopInit \/ F_Test \/ F_MulUi \/ F_MulUiAllocFail \/ F_Inc
    \/ CallerCall
    \/ M_MpzInit \/ M_ForInit \/ M_ForTest \/ M_Start \/ M_Call \/ M_CallReturn
    \/ M_End \/ M_Elapsed \/ M_Printf \/ M_ForInc
    \/ M_MpfInit2 \/ M_MpfInit2AllocFail \/ M_MpfSetZ \/ M_MpfPrintf
    \/ M_MpfClear \/ M_MpzClear \/ M_Return
    \/ P_Init2 \/ P_ConstPi \/ P_PrintfHead \/ P_OutStr \/ P_PrintfNl \/ P_Clear
    \/ P_Return

Spec == Init /\ [][Next]_vars

\* a running program takes its next step: the process is scheduled until it
\* exits or is terminated
FairSpec == Spec /\ WF_vars(Next)

\* ------------------------------------------------------------ claims

\* C1: when calculate_factorial(n, result) returns, result is exactly the
\* product 1*2*...*n, and it is 1 for n = 0 and for n = 1.
C1_ExactFactorial ==
    fpc = "ret" =>
        /\ result = Factorial(n)
        /\ (n \in {0, 1} => result = 1)

C1_Witness ==
    /\ mode = "caller" /\ fpc = "ret"
    /\ n = 6 /\ result = 720 /\ mults = <<1, 2, 3, 4, 5, 6>>

\* C2: the value a call leaves in the accumulator does not depend on what the
\* accumulator held before: all calls with one argument n, on a fresh
\* accumulator (value 0), on one holding a value its owner stored, or on one
\* reused from an earlier call, return the same value.
C2_ReuseIndependent ==
    /\ \A m \in 0..ULONG_MAX : Cardinality(returned[m]) <= 1
    /\ fpc = "ret" => returned[n] = {result}

\* main's second or later round: the accumulator held n! when the call began
C2_Witness ==
    /\ mode = "factorial" /\ fpc = "ret" /\ round >= 1
    /\ prior = Factorial(n) /\ prior > 1
    /\ returned[n] = {result}

\* C3, as claimed: for n2 > n1 >= 0 the value returned for n2 is strictly
\* greater than the value returned for n1.
C3_StrictlyMonotone ==
    \A n1 \in 0..ULONG_MAX, n2 \in 0..ULONG_MAX :
        n1 < n2 => \A v1 \in returned[n1], v2 \in returned[n2] : v2 > v1

\* C3, amended: strictly greater for n2 > n1 >= 1; for n1 = 0 the value for n2
\* is not smaller, and equal exactly when n2 = 1.
C3_MonotoneFromOne ==
    \A n1 \in 0..ULONG_MAX, n2 \in 0..ULONG_MAX :
        n1 < n2 => \A v1 \in returned[n1], v2 \in returned[n2] :
            /\ n1 >= 1 => v2 > v1
            /\ n1 = 0 => (v2 >= v1 /\ (v2 = v1 <=> n2 = 1))

C3_Witness ==
    /\ returned[0] # {} /\ returned[1] # {} /\ returned[2] # {}
    /\ returned[5] # {} /\ returned[6] # {}

\* C4: every call of calculate_factorial runs to completion (unless the
\* program is terminated by a failed allocation), for every n of the
\* parameter's type, 2^w - 1 included.
C4_Terminates == (fpc = "set") ~> (fpc = "ret" \/ allocFailed)

\* C5: a negative argument is rejected before the accumulator is modified and
\* before any multiplication.
C5_NegativeRejected ==
    arg < 0 => (result = prior /\ mults = <<>> /\ fpc \in {"set", "idle"})

C7_ReportsExactInteger ==
    \A k \in 1..Len(out) :
        out[k].kind = "factorial" =>
            /\ FeValue(out[k].value, FmtDigits) = result
            /\ result = Factorial(n)

\* C8: main's rounds 0..4 run in order, each taking the start time, calling
\* calculate_factorial once, taking the end time after the return and reporting
\* one sample; every reported elapsed time is non-negative.
TimingCycle == <<"start", "call", "ret", "end", "report">>

C8_RoundsTimed ==
    mode = "factorial" =>
        /\ \A k \in 1..Len(log) :
             log[k] = <<TimingCycle[((k - 1) % Len(TimingCycle)) + 1],
                        (k - 1) \div Len(TimingCycle)>>
        /\ Len(log) <= ROUNDS * Len(TimingCycle)
        /\ pc = "exit" => Len(log) = ROUNDS * Len(TimingCycle)
        /\ \A k \in 1..Len(out) :
             out[k].kind = "round" =>
                 /\ out[k].round = k - 1
                 /\ k <= ROUNDS
                 /\ log[k * Len(TimingCycle)] = <<"report", k - 1>>
                 /\ out[k].seconds.num >= 0
                 /\ out[k].seconds.den > 0
        /\ Cardinality({k \in 1..Len(out) : out[k].kind = "round"})
             = Cardinality({k \in 1..Len(log) : log[k][1] = "report"})

C8_Witness ==
    /\ mode = "factorial" /\ pc = "exit"
    /\ Len(out) = ROUNDS + 1
    /\ out[1].seconds.num = 0
    /\ out[ROUNDS].seconds.num > 0

\* C9: every big number (result and fresult of the factorial program, pi of
\* the pi program) is used only while initialised and not yet cleared, is
\* cleared at most once, and has been cleared exactly once when main returns.
Owned == IF mode = "factorial" THEN {"result", "fresult"}
         ELSE IF mode = "pi" THEN {"pi"} ELSE {}

C9_Lifecycle ==
    /\ misuse = {}
    /\ \A v \in BigNums : clears[v] <= 1
    /\ \A v \in BigNums : st[v] = "cleared" <=> clears[v] = 1
    /\ pc = "exit" => \A v \in Owned : st[v] = "cleared"

C9_Witness ==
    /\ mode = "factorial" /\ pc = "exit"
    /\ st["result"] = "cleared" /\ st["fresult"] = "cleared"
    /\ Len(out) = ROUNDS + 1

\* C10: at every loop head with counter i, 1 <= i <= n + 1, the accumulator is
\* (i-1)! and the multipliers applied so far are 1, 2, ..., i-1 in this order;
\* a call that returns has applied exactly 1, 2, ..., n.
C10_LoopInvariant ==
    /\ (fpc = "test" /\ 1 <= i /\ i <= n + 1) =>
           (result = Factorial(i - 1) /\ mults = UpTo(i - 1))
    /\ fpc = "ret" => mults = UpTo(n)

====
